---------------------------- MODULE Spec2Model ----------------------------
(***************************************************************************)
(* The order book binding of docker/trading/liquibook: the N-API wrapper   *)
(* OrderBookWrapper (order_book_wrapper.cc) around a DepthOrderBook, and   *)
(* the NodeOrder it builds from a call's arguments.                        *)
(*                                                                         *)
(* The wrapper's handlers, NodeOrder and its accessors are translated from *)
(* the source.  The matching engine behind orderBook_ (add,                *)
(* set_market_price, the bid/ask containers, the stop order set and the    *)
(* depth aggregator) is not part of the source files; it is modelled from  *)
(* sections 3 and 4 of the specification and every such definition is      *)
(* marked "engine" in its comment.                                         *)
(***************************************************************************)
EXTENDS Integers, Sequences, FiniteSets

VARIABLES
    orders,       \* every NodeOrder handed to add, by submission number
    submitted,    \* the argument list (info) each of those orders came from
    open,         \* engine: open quantity per order
    status,       \* engine: "resting" | "stop" | "filled" | "cancelled" | "rejected"
    bids,         \* engine: resting buy orders, best price first, FIFO in a price
    asks,         \* engine: resting sell orders, best price first, FIFO in a price
    stopBids,     \* engine: pending buy stops, in trigger order
    stopAsks,     \* engine: pending sell stops, in trigger order
    marketPrice,  \* engine: the market price
    depthBids,    \* engine: depth levels of the bid side, best first
    depthAsks,    \* engine: depth levels of the ask side, best first
    arrival,      \* engine: the rank in which each order came to rest (0: it never did)
    trades,       \* fills executed during the last call
    activated,    \* stop orders activated during the last call, in order
    ret           \* what the last call returned or threw

vars == <<orders, submitted, open, status, bids, asks, stopBids, stopAsks,
          marketPrice, depthBids, depthAsks, arrival, trades, activated, ret>>

bookVars == <<bids, asks, stopBids, stopAsks, marketPrice, depthBids, depthAsks>>

-----------------------------------------------------------------------------
(* Bounds of the model. *)

\* the number of orders submitted in one behaviour
MaxOrders == 3

-----------------------------------------------------------------------------
(* Program constants. *)

\* the number of depth levels GetDepth reads per side
SIZE == 5

\* the price GetDepth treats as "no level": 0xFFFFFFFFFFFFFFFF in the source,
\* here the largest integer TLC represents (no price of the model comes near)
INVALID_LEVEL_PRICE == 2147483647

\* the price of a market order and of an unset stop price
MARKET_ORDER_PRICE == 0

Min(a, b) == IF a <= b THEN a ELSE b

InsertAt(s, k, x) == SubSeq(s, 1, k - 1) \o <<x>> \o SubSeq(s, k, Len(s))

RemoveAt(s, k) == SubSeq(s, 1, k - 1) \o SubSeq(s, k + 1, Len(s))


-----------------------------------------------------------------------------
(* NodeOrder: the order the wrapper builds (order_book_wrapper.cc 203-213). *)

\* a constructor that initialises price_ and stopPrice_ from each other's
\* argument
NodeOrderSwappedPrices(isBuy, price, qty, stopPrice, allOrNone, immediateOrCancel) ==
    [isBuy_ |-> isBuy, price_ |-> stopPrice, qty_ |-> qty, stopPrice_ |-> price,
     allOrNone_ |-> allOrNone, immediateOrCancel_ |-> immediateOrCancel]

\* a constructor that initialises allOrNone_ and immediateOrCancel_ from each
\* other's argument
NodeOrderSwappedFlags(isBuy, price, qty, stopPrice, allOrNone, immediateOrCancel) ==
    [isBuy_ |-> isBuy, price_ |-> price, qty_ |-> qty, stopPrice_ |-> stopPrice,
     allOrNone_ |-> immediateOrCancel, immediateOrCancel_ |-> allOrNone]

NodeOrder(isBuy, price, qty, stopPrice, allOrNone, immediateOrCancel) ==
    [isBuy_ |-> isBuy, price_ |-> price, qty_ |-> qty, stopPrice_ |-> stopPrice,
     allOrNone_ |-> allOrNone, immediateOrCancel_ |-> immediateOrCancel]

\* an accessor that reports the other side
is_buy_negated(o) == ~o.isBuy_

is_buy(o) == o.isBuy_

\* an accessor that reports the quantity as the price
price_as_qty(o) == o.qty_

price(o) == o.price_

\* an accessor that reports the price as the quantity
order_qty_as_price(o) == o.price_

order_qty(o) == o.qty_

\* an accessor that reports no stop price
stop_price_unset(o) == MARKET_ORDER_PRICE

stop_price(o) == o.stopPrice_

\* an accessor that reports every order as all-or-none
all_or_none_always(o) == TRUE

all_or_none(o) == o.allOrNone_

immediate_or_cancel(o) == o.immediateOrCancel_

-----------------------------------------------------------------------------
(* Engine: the depth aggregator (specification 3, 4.4).  A side's levels   *)
(* are kept best first; each holds a price, the number of orders and their *)
(* aggregate open quantity.  The first SIZE of them are the depth view.    *)

\* engine: whether price p ranks strictly before price q on a side
Better(isBuy, p, q) == IF isBuy THEN p > q ELSE p < q

\* engine: the index of the level at price p, 0 if there is none
FindLevel(levels, p) ==
    IF \E i \in 1..Len(levels) : levels[i].price = p
    THEN CHOOSE i \in 1..Len(levels) : levels[i].price = p
    ELSE 0

\* engine: an order of quantity q comes to rest at price p
DepthAddOrder(levels, isBuy, p, q) ==
    LET i == FindLevel(levels, p)
        k == Cardinality({j \in 1..Len(levels) : Better(isBuy, levels[j].price, p)})
    IN  IF i # 0
        THEN [levels EXCEPT ![i] = [price |-> p,
                                    order_count |-> @.order_count + 1,
                                    aggregate_qty |-> @.aggregate_qty + q]]
        ELSE InsertAt(levels, k + 1,
                      [price |-> p, order_count |-> 1, aggregate_qty |-> q])

\* engine: an order at price p with open quantity q leaves the book
DepthCloseOrder(levels, p, q) ==
    LET i == FindLevel(levels, p)
    IN  IF i = 0 THEN levels
        ELSE IF levels[i].order_count = 1 THEN RemoveAt(levels, i)
        ELSE [levels EXCEPT ![i] = [price |-> p,
                                    order_count |-> @.order_count - 1,
                                    aggregate_qty |-> @.aggregate_qty - q]]

\* engine: an order at price p that stays in the book is filled by q
DepthChangeQty(levels, p, q) ==
    LET i == FindLevel(levels, p)
    IN  IF i = 0 THEN levels
        ELSE [levels EXCEPT ![i] = [price |-> p,
                                    order_count |-> @.order_count,
                                    aggregate_qty |-> @.aggregate_qty - q]]

\* engine: the slot of the depth view that holds no level
EmptyLevel == [price |-> INVALID_LEVEL_PRICE, order_count |-> 0, aggregate_qty |-> 0]

\* engine: depth.bids() / depth.asks(): the array of SIZE levels GetDepth reads
DepthArray(levels) ==
    [i \in 1..SIZE |-> IF i <= Len(levels) THEN levels[i] ELSE EmptyLevel]

-----------------------------------------------------------------------------
(* Engine: the order book core (specification 4.1 - 4.3).  The operators   *)
(* below work on a record b of the engine's state during one call:         *)
(*   orders, open, status, bids, asks, stopBids, stopAsks, marketPrice,    *)
(*   depthBids, depthAsks, arrival   as the variables of the same names,   *)
(*   trades, activated      the call's fills and stop activations,         *)
(*   pending                the work queue of triggered stop orders,       *)
(*   buyFirst               whether triggered buy stops are queued before  *)
(*                          triggered sell stops (the specification leaves *)
(*                          the order between the sides open).             *)

\* engine: a market order carries no price limit
IsMarket(o) == price(o) = MARKET_ORDER_PRICE

\* engine: 4.1 step 1: the incoming order can trade at the resting order's price
CanTrade(in, rest) ==
    \/ IsMarket(in)
    \/ IF is_buy(in) THEN price(in) >= price(rest) ELSE price(in) <= price(rest)

\* engine: 4.1 step 1b: one of the two is all-or-none and the other cannot
\* fill it whole
AonBlocked(b, id, r) ==
    \/ all_or_none(b.orders[id]) /\ b.open[r] < b.open[id]
    \/ all_or_none(b.orders[r]) /\ b.open[id] < b.open[r]

\* engine: 4.3: the buy stops the market price has reached, in trigger order
TriggeredBids(b) ==
    SelectSeq(b.stopBids, LAMBDA s : b.marketPrice >= stop_price(b.orders[s]))

\* engine: 4.3: the sell stops the market price has reached, in trigger order
TriggeredAsks(b) ==
    SelectSeq(b.stopAsks, LAMBDA s : b.marketPrice <= stop_price(b.orders[s]))

\* engine: 4.3: the orders of the queue q are no longer in the stop set
RECURSIVE MarkPending(_, _)
MarkPending(st, q) ==
    IF q = <<>> THEN st
    ELSE MarkPending([st EXCEPT ![Head(q)] = "pending"], Tail(q))

\* engine: 4.3: on a market price update, move every triggered stop order
\* from the stop set to the tail of the work queue
check_stop_orders(b) ==
    LET tb == TriggeredBids(b)
        ta == TriggeredAsks(b)
        q  == IF b.buyFirst THEN tb \o ta ELSE ta \o tb
    IN  [b EXCEPT
          !.stopBids = SelectSeq(b.stopBids,
                           LAMBDA s : ~(b.marketPrice >= stop_price(b.orders[s]))),
          !.stopAsks = SelectSeq(b.stopAsks,
                           LAMBDA s : ~(b.marketPrice <= stop_price(b.orders[s]))),
          !.pending = @ \o q,
          !.status = MarkPending(@, q),
          !.activated = @ \o [k \in 1..Len(q) |->
                                [id |-> q[k], marketPrice |-> b.marketPrice]]]

\* engine: the orders resting at the price and on the side of order r, in
\* queue order, each with its open quantity
LevelOf(b, r) ==
    LET side == IF is_buy(b.orders[r]) THEN b.bids ELSE b.asks
        same == SelectSeq(side, LAMBDA x : price(b.orders[x]) = price(b.orders[r]))
    IN  [k \in 1..Len(same) |-> [id |-> same[k], open |-> b.open[same[k]]]]

\* engine: 4.1 step 1c: the quantity of one trade
TradeQty(inOpen, restOpen) == Min(inOpen, restOpen)

\* engine: 4.1 steps 1c - 1e: order id trades with the resting order r
Trade(b, id, r) ==
    LET in   == b.orders[id]
        rest == b.orders[r]
        q    == TradeQty(b.open[id], b.open[r])
        px   == price(rest)
        gone == b.open[r] - q <= 0
        b1   == [b EXCEPT
                  !.open[id] = @ - q,
                  !.open[r] = @ - q,
                  !.status[id] = IF b.open[id] - q <= 0 THEN "filled" ELSE @,
                  !.status[r] = IF gone THEN "filled" ELSE @,
                  !.bids = IF is_buy(rest) /\ gone
                           THEN SelectSeq(@, LAMBDA x : x # r) ELSE @,
                  !.asks = IF ~is_buy(rest) /\ gone
                           THEN SelectSeq(@, LAMBDA x : x # r) ELSE @,
                  !.depthBids = IF ~is_buy(rest) THEN @
                                ELSE IF gone THEN DepthCloseOrder(@, px, q)
                                ELSE DepthChangeQty(@, px, q),
                  !.depthAsks = IF is_buy(rest) THEN @
                                ELSE IF gone THEN DepthCloseOrder(@, px, q)
                                ELSE DepthChangeQty(@, px, q),
                  !.trades = Append(@, [in |-> id, rest |-> r, qty |-> q,
                                        price |-> px,
                                        inOpen |-> b.open[id],
                                        restOpen |-> b.open[r],
                                        level |-> LevelOf(b, r)]),
                  !.marketPrice = px]
    IN  check_stop_orders(b1)

\* engine: 4.1 step 1: match order id against the opposite side from its
\* i-th resting order on, in price-time order
RECURSIVE match_order(_, _, _)
match_order(b, id, i) ==
    LET opp == IF is_buy(b.orders[id]) THEN b.asks ELSE b.bids
    IN  IF b.open[id] = 0 \/ i > Len(opp) THEN b
        ELSE IF ~CanTrade(b.orders[id], b.orders[opp[i]]) THEN b
        ELSE IF AonBlocked(b, id, opp[i]) THEN match_order(b, id, i + 1)
        ELSE LET b1 == Trade(b, id, opp[i])
             IN  match_order(b1, id, IF b1.open[opp[i]] = 0 THEN i ELSE i + 1)

\* a book side that puts a new order in front of the orders at its price
InsertRestingAtHead(side, os, id) ==
    LET o == os[id]
        k == Cardinality({j \in 1..Len(side) :
                            Better(is_buy(o), price(os[side[j]]), price(o))})
    IN  InsertAt(side, k + 1, id)

\* engine: 4.1 step 2: append order id to the tail of its price's sequence
InsertResting(side, os, id) ==
    LET o == os[id]
        k == Cardinality({j \in 1..Len(side) :
                            ~Better(is_buy(o), price(o), price(os[side[j]]))})
    IN  InsertAt(side, k + 1, id)

\* engine: 4.1 step 2: what becomes of order id once matching is over
Settle(b, id) ==
    LET o == b.orders[id]
    IN  IF b.open[id] = 0 THEN b
        ELSE IF immediate_or_cancel(o) \/ IsMarket(o)
        THEN [b EXCEPT !.status[id] = "cancelled"]
        ELSE [b EXCEPT
               !.status[id] = "resting",
               !.arrival[id] = 1 + Cardinality({i \in DOMAIN b.arrival :
                                                   b.arrival[i] > 0}),
               !.bids = IF is_buy(o) THEN InsertResting(@, b.orders, id) ELSE @,
               !.asks = IF is_buy(o) THEN @ ELSE InsertResting(@, b.orders, id),
               !.depthBids = IF is_buy(o)
                             THEN DepthAddOrder(@, TRUE, price(o), b.open[id])
                             ELSE @,
               !.depthAsks = IF is_buy(o)
                             THEN @
                             ELSE DepthAddOrder(@, FALSE, price(o), b.open[id])]

\* engine: 4.1: match order id, then rest or discard what is left of it
submit_order(b, id) == Settle(match_order(b, id, 1), id)

\* engine: 4.3: activate the queued stop orders, one after the other, until
\* the work queue is empty
RECURSIVE submit_pending_orders(_)
submit_pending_orders(b) ==
    IF b.pending = <<>> THEN b
    ELSE submit_pending_orders(
             submit_order([b EXCEPT !.pending = Tail(@)], Head(b.pending)))

\* a stop set that puts a new stop order in front of those at its stop price
add_stop_order_at_head(stops, os, id) ==
    LET o == os[id]
        k == Cardinality({j \in 1..Len(stops) :
                Better(~is_buy(o), stop_price(os[stops[j]]), stop_price(o))})
    IN  InsertAt(stops, k + 1, id)

\* engine: 3, 4.3: a side's stop set is kept in trigger order: buy stops by
\* rising stop price, sell stops by falling stop price, and in submission
\* order within one stop price
add_stop_order(stops, os, id) ==
    LET o == os[id]
        k == Cardinality({j \in 1..Len(stops) :
                ~Better(~is_buy(o), stop_price(o), stop_price(os[stops[j]]))})
    IN  InsertAt(stops, k + 1, id)

\* engine: 4.1: add(order, conditions); b.orders already holds the order as
\* its last entry
add(b, conditions) ==
    LET id == Len(b.orders)
        o  == b.orders[id]
    IN  IF order_qty(o) = 0
        THEN [b EXCEPT !.status[id] = "rejected"]
        ELSE IF stop_price(o) # MARKET_ORDER_PRICE
        THEN [b EXCEPT
               !.status[id] = "stop",
               !.stopBids = IF is_buy(o) THEN add_stop_order(@, b.orders, id) ELSE @,
               !.stopAsks = IF is_buy(o) THEN @ ELSE add_stop_order(@, b.orders, id)]
        ELSE submit_pending_orders(submit_order(b, id))

\* engine: 4.1: the result of add: at least one trade occurred for the order
Matched(b, id) == \E k \in 1..Len(b.trades) : b.trades[k].in = id

\* engine: 4.1: set_market_price(price)
set_market_price(b, p) ==
    submit_pending_orders(check_stop_orders([b EXCEPT !.marketPrice = p]))

\* engine: 4.1: cancel(order_id) finds the order
CanCancel(b, id) == id \in DOMAIN b.status /\ b.status[id] \in {"resting", "stop"}

\* engine: 4.1: cancel(order_id): a resting order leaves its level and the
\* depth, a stop order leaves the stop set, no other order is touched
cancel(b, id) ==
    IF ~CanCancel(b, id) THEN b
    ELSE LET o == b.orders[id]
         IN  IF b.status[id] = "stop"
             THEN [b EXCEPT
                    !.status[id] = "cancelled",
                    !.stopBids = SelectSeq(@, LAMBDA x : x # id),
                    !.stopAsks = SelectSeq(@, LAMBDA x : x # id)]
             ELSE [b EXCEPT
                    !.status[id] = "cancelled",
                    !.bids = SelectSeq(@, LAMBDA x : x # id),
                    !.asks = SelectSeq(@, LAMBDA x : x # id),
                    !.depthBids = IF is_buy(o)
                                  THEN DepthCloseOrder(@, price(o), b.open[id])
                                  ELSE @,
                    !.depthAsks = IF is_buy(o)
                                  THEN @
                                  ELSE DepthCloseOrder(@, price(o), b.open[id])]

-----------------------------------------------------------------------------
(* The wrapper: OrderBookWrapper's handlers (order_book_wrapper.cc).  info *)
(* is the call's argument list; ret records what the call returned         *)
(* (value) or the JavaScript exception it threw (threw), and arg the order *)
(* or price the call was about.                                            *)

\* the engine's state between calls, as the record the engine operators use
Book(buyFirst) ==
    [orders |-> orders, open |-> open, status |-> status,
     bids |-> bids, asks |-> asks, stopBids |-> stopBids, stopAsks |-> stopAsks,
     marketPrice |-> marketPrice, depthBids |-> depthBids, depthAsks |-> depthAsks,
     arrival |-> arrival,
     trades |-> <<>>, activated |-> <<>>, pending |-> <<>>, buyFirst |-> buyFirst]

\* the call leaves the engine in state b
Becomes(b) ==
    /\ orders' = b.orders
    /\ open' = b.open
    /\ status' = b.status
    /\ bids' = b.bids
    /\ asks' = b.asks
    /\ stopBids' = b.stopBids
    /\ stopAsks' = b.stopAsks
    /\ marketPrice' = b.marketPrice
    /\ depthBids' = b.depthBids
    /\ depthAsks' = b.depthAsks
    /\ arrival' = b.arrival
    /\ trades' = b.trades
    /\ activated' = b.activated

\* the call fails before it reaches the engine
Throws(op, what, arg) ==
    /\ ret' = [op |-> op, threw |-> what, value |-> "null", arg |-> arg]
    /\ trades' = <<>>
    /\ activated' = <<>>
    /\ UNCHANGED <<orders, submitted, open, status, arrival, bookVars>>

\* an argument list read without its optional sixth argument
ParseAddArgsNoIoc(info) ==
    [isBuy |-> info[1], price |-> info[2], quantity |-> info[3],
     stopPrice |-> info[4], allOrNone |-> info[5], immediateOrCancel |-> FALSE]

\* an argument list read with price and quantity in each other's place
ParseAddArgsSwapped(info) ==
    [isBuy |-> info[1], price |-> info[3], quantity |-> info[2],
     stopPrice |-> info[4], allOrNone |-> info[5],
     immediateOrCancel |-> IF Len(info) > 5 THEN info[6] ELSE FALSE]

\* AddOrder, lines 49-54: the arguments of addOrder
ParseAddArgs(info) ==
    [isBuy |-> info[1], price |-> info[2], quantity |-> info[3],
     stopPrice |-> info[4], allOrNone |-> info[5],
     immediateOrCancel |-> IF Len(info) > 5 THEN info[6] ELSE FALSE]

\* a handler that reports a match whatever the engine answered
AddOrderReturnTrue(matched) == "true"

\* AddOrder, line 61: return Napi::Boolean::New(env, matched)
AddOrderReturn(matched) == IF matched THEN "true" ELSE "false"

AddOrder(info, buyFirst) ==
    /\ Len(orders) < MaxOrders
    /\ IF Len(info) < 5
       THEN Throws("addOrder", "TypeError", 0)
       ELSE LET a     == ParseAddArgs(info)
                order == NodeOrder(a.isBuy, a.price, a.quantity, a.stopPrice,
                                   a.allOrNone, a.immediateOrCancel)
                b0    == Book(buyFirst)
                id    == Len(orders) + 1
                b     == add([b0 EXCEPT !.orders = Append(@, order),
                                        !.open = Append(@, order_qty(order)),
                                        !.status = Append(@, "accepted"),
                                        !.arrival = Append(@, 0)], 0)
            IN  /\ Becomes(b)
                /\ submitted' = Append(submitted, info)
                /\ ret' = [op |-> "addOrder", threw |-> "none",
                           value |-> AddOrderReturn(Matched(b, id)), arg |-> id]

\* a cancel that answers true and leaves the book as it is
CancelOrderAnswersTrue(info) ==
    /\ ret' = [op |-> "cancelOrder", threw |-> "none", value |-> "true",
               arg |-> IF Len(info) < 1 THEN 0 ELSE info[1]]
    /\ trades' = <<>>
    /\ activated' = <<>>
    /\ UNCHANGED <<orders, submitted, open, status, arrival, bookVars>>

CancelOrder(info) ==
    IF Len(info) < 1
    THEN Throws("cancelOrder", "TypeError", 0)
    ELSE Throws("cancelOrder", "Error", info[1])

ReplaceOrder(info) ==
    IF Len(info) < 3
    THEN Throws("replaceOrder", "TypeError", 0)
    ELSE Throws("replaceOrder", "Error", info[1])

\* a handler that answers without handing the price to the book
SetMarketPriceDropped(info, buyFirst) ==
    /\ ret' = [op |-> "setMarketPrice", threw |-> "none", value |-> "null",
               arg |-> IF Len(info) < 1 THEN 0 ELSE info[1]]
    /\ trades' = <<>>
    /\ activated' = <<>>
    /\ UNCHANGED <<orders, submitted, open, status, arrival, bookVars>>

SetMarketPrice(info, buyFirst) ==
    IF Len(info) < 1
    THEN Throws("setMarketPrice", "TypeError", 0)
    ELSE LET b == set_market_price(Book(buyFirst), info[1])
         IN  /\ Becomes(b)
             /\ submitted' = submitted
             /\ ret' = [op |-> "setMarketPrice", threw |-> "none",
                        value |-> "null", arg |-> info[1]]

\* GetOrderBook, lines 108-112 and 118-122: one entry per element of
\* bids() / asks(), with the element's price and open quantity
BookEntries(side) ==
    [i \in 1..Len(side) |-> [price |-> price(orders[side[i]]),
                             quantity |-> open[side[i]]]]

GetOrderBook == [bids |-> BookEntries(bids), asks |-> BookEntries(asks)]

\* a check that takes every slot of the depth array for a level
ValidLevelAlways(level) == TRUE

\* GetDepth, lines 154 and 167: the check for a valid price
ValidLevel(level) == level.price > 0 /\ level.price # INVALID_LEVEL_PRICE

\* an entry that reports the level's order count as its quantity
LevelEntryOrderCount(level) ==
    [price |-> level.price, quantity |-> level.order_count]

\* GetDepth, lines 155-158 and 168-171: the entry of one level
LevelEntry(level) == [price |-> level.price, quantity |-> level.aggregate_qty]

\* GetDepth, lines 152-160 and 165-173: the loop over the SIZE levels of a side
RECURSIVE DepthEntries(_, _)
DepthEntries(levels, i) ==
    IF i > SIZE THEN <<>>
    ELSE (IF ValidLevel(levels[i]) THEN <<LevelEntry(levels[i])>> ELSE <<>>)
         \o DepthEntries(levels, i + 1)

GetDepth == [bids |-> DepthEntries(DepthArray(depthBids), 1),
             asks |-> DepthEntries(DepthArray(depthAsks), 1)]

-----------------------------------------------------------------------------
(* The calls a behaviour makes. *)

\* argument lists of addOrder without the optional immediateOrCancel
Infos5(P, Q, S, A) ==
    {<<s, p, q, st, a>> : s \in BOOLEAN, p \in P, q \in Q, st \in S, a \in A}

\* argument lists of addOrder with immediateOrCancel given
Infos6(P, Q, S, A, I) ==
    {<<s, p, q, st, a, i>> :
        s \in BOOLEAN, p \in P, q \in Q, st \in S, a \in A, i \in I}

\* an argument list of addOrder that is too short
ShortAdd == <<TRUE, 1, 1, 0>>

OrderIds == 1..(MaxOrders + 1)

Init ==
    /\ orders = <<>>
    /\ submitted = <<>>
    /\ open = <<>>
    /\ status = <<>>
    /\ bids = <<>>
    /\ asks = <<>>
    /\ stopBids = <<>>
    /\ stopAsks = <<>>
    /\ marketPrice = 0
    /\ depthBids = <<>>
    /\ depthAsks = <<>>
    /\ arrival = <<>>
    /\ trades = <<>>
    /\ activated = <<>>
    /\ ret = [op |-> "new", threw |-> "none", value |-> "null", arg |-> 0]

\* every handler, on limit, stop, market and zero-quantity orders and with
\* malformed calls
AddInfos ==
    Infos5({1}, {1, 2}, {0, 2}, {FALSE})
        \cup Infos5({0}, {1}, {0}, {FALSE})
        \cup {<<TRUE, 1, 0, 0, FALSE>>, ShortAdd}

CancelInfos == {<<>>} \cup {<<id>> : id \in OrderIds}

ReplaceInfos == {<<1>>} \cup {<<id, 1, 1>> : id \in OrderIds}

Next ==
    \/ \E info \in AddInfos, bf \in BOOLEAN : AddOrder(info, bf)
    \/ \E info \in CancelInfos : CancelOrder(info)
    \/ \E info \in ReplaceInfos : ReplaceOrder(info)
    \/ \E info \in {<<>>, <<2>>, <<3>>}, bf \in BOOLEAN : SetMarketPrice(info, bf)

Spec == Init /\ [][Next]_vars

\* addOrder and setMarketPrice on limit, market, stop, all-or-none,
\* immediate-or-cancel and zero-quantity orders
AddInfosBook ==
    Infos5({96, 100}, {5, 10}, {0, 96}, BOOLEAN)
        \cup Infos5({0}, {5}, {0, 96}, {FALSE})
        \cup Infos6({100}, {5, 10}, {0}, {FALSE}, {TRUE})
        \cup Infos5({100}, {0}, {0}, {FALSE})

NextBook ==
    \/ \E info \in AddInfosBook, bf \in BOOLEAN : AddOrder(info, bf)
    \/ \E info \in {<<95>>, <<96>>}, bf \in BOOLEAN : SetMarketPrice(info, bf)

SpecBook == Init /\ [][NextBook]_vars

\* addOrder and setMarketPrice on limit and market orders of the quantities
\* of the specification's example
AddInfosExample == Infos5({0, 99, 100}, {4, 6, 10}, {0}, {FALSE})

NextExample ==
    \/ \E info \in AddInfosExample, bf \in BOOLEAN : AddOrder(info, bf)
    \/ \E info \in {<<99>>}, bf \in BOOLEAN : SetMarketPrice(info, bf)

SpecExample == Init /\ [][NextExample]_vars

-----------------------------------------------------------------------------
(* What the claims are stated with. *)

Ids == DOMAIN orders

\* the arguments order id was submitted with
ArgIsBuy(id) == submitted[id][1]
ArgPrice(id) == submitted[id][2]
ArgQty(id) == submitted[id][3]
ArgStop(id) == submitted[id][4]
ArgAon(id) == submitted[id][5]

\* the sum of the open quantities of the orders of a book side at price p
RECURSIVE SumOpenAt(_, _)
SumOpenAt(side, p) ==
    IF side = <<>> THEN 0
    ELSE (IF ArgPrice(Head(side)) = p THEN open[Head(side)] ELSE 0)
         + SumOpenAt(Tail(side), p)

\* the prices at which a book side has resting orders
PricesOf(side) == {ArgPrice(side[k]) : k \in 1..Len(side)}

\* the number of a side's price levels that rank before price p
RankOf(side, isBuy, p) == Cardinality({q \in PricesOf(side) : Better(isBuy, q, p)})

DepthSideAgrees(entries, side, isBuy) ==
    /\ \A i \in 1..Len(entries) :
          /\ entries[i].price \in PricesOf(side)
          /\ entries[i].quantity = SumOpenAt(side, entries[i].price)
    /\ \A p \in PricesOf(side) :
          RankOf(side, isBuy, p) < SIZE =>
              \E i \in 1..Len(entries) : entries[i].price = p

\* C1: between calls, on either side, every entry of the depth view carries
\* the sum of the open quantities of the orders resting at its price, and
\* every price level among the best SIZE of the side has an entry.
C1_DepthEqualsOpenQuantities ==
    /\ DepthSideAgrees(GetDepth.bids, bids, TRUE)
    /\ DepthSideAgrees(GetDepth.asks, asks, FALSE)

\* C1 witness: the depth view shows one bid level, which holds two resting
\* orders, one of them partly filled
C1_Witness ==
    /\ Len(GetDepth.bids) = 1
    /\ GetDepth.bids[1].quantity = 10
    /\ \E i, j \in 1..Len(bids) :
          /\ i # j
          /\ ArgPrice(bids[i]) = ArgPrice(bids[j])
          /\ open[bids[i]] < ArgQty(bids[i])

\* the trades of the last call
TradeIdx == 1..Len(trades)

\* at trade t, the resting order x (an entry of t.level) could not trade
\* with the incoming order: one of the two is all-or-none and the other
\* could not fill it whole
Ineligible(t, x) ==
    \/ ArgAon(t.in) /\ x.open < t.inOpen
    \/ ArgAon(x.id) /\ t.inOpen < x.open

\* C2, as claimed: whenever a resting order is filled, no order submitted
\* before it rests at its price, on its side, with open quantity, unless that
\* order is not eligible for the trade.
C2_SubmittedEarlierFilledFirst ==
    \A k \in TradeIdx :
        \A i \in 1..Len(trades[k].level) :
            trades[k].level[i].id < trades[k].rest
                => Ineligible(trades[k], trades[k].level[i])

\* C2, amended: whenever a resting order is filled, no order that came to
\* rest before it rests at its price, on its side, with open quantity, unless
\* that order is not eligible for the trade.
C2_RestedEarlierFilledFirst ==
    \A k \in TradeIdx :
        \A i \in 1..Len(trades[k].level) :
            arrival[trades[k].level[i].id] < arrival[trades[k].rest]
                => Ineligible(trades[k], trades[k].level[i])

\* C2 witness: a resting order is filled while an eligible order that came
\* to rest after it waits at the same price
C2_Witness ==
    \E k \in TradeIdx :
        \E i \in 1..Len(trades[k].level) :
            /\ arrival[trades[k].rest] < arrival[trades[k].level[i].id]
            /\ ~Ineligible(trades[k], trades[k].level[i])

\* C3: an order submitted with the all-or-none flag has, between calls, its
\* whole quantity open or none of it.
C3_AllOrNoneNeverPartial ==
    \A id \in Ids : ArgAon(id) => open[id] \in {ArgQty(id), 0}

\* C3 witness: a trade passes over an all-or-none order that rests first in
\* the queue of its price, and leaves it whole
C3_Witness ==
    \E k \in TradeIdx :
          \E i \in 1..Len(trades[k].level) :
              /\ ArgAon(trades[k].level[i].id)
              /\ arrival[trades[k].level[i].id] < arrival[trades[k].rest]
              /\ open[trades[k].level[i].id] = ArgQty(trades[k].level[i].id)

\* C5: addOrder returns true exactly if a trade of the call involves the
\* submitted order; it returns false for an order that only rests, goes to
\* the stop set or is rejected.
C5_AddReturnsTrueIffTraded ==
    (ret.op = "addOrder" /\ ret.threw = "none") =>
        /\ ret.value \in {"true", "false"}
        /\ ret.value = "true" <=>
              \E k \in TradeIdx : trades[k].in = ret.arg \/ trades[k].rest = ret.arg
        /\ (status[ret.arg] \in {"stop", "rejected"} => ret.value = "false")
        /\ (status[ret.arg] = "resting" /\ open[ret.arg] = ArgQty(ret.arg)
               => ret.value = "false")

\* C5 witness: addOrder returns true for an order that traded, came to rest
\* and was then traded against by a stop order its own trade triggered
C5_Witness ==
    /\ ret.op = "addOrder"
    /\ ret.value = "true"
    /\ \E k \in TradeIdx : trades[k].rest = ret.arg

\* the quantity the trades of the last call took from order id
RECURSIVE FilledIn(_, _)
FilledIn(ts, id) ==
    IF ts = <<>> THEN 0
    ELSE (IF Head(ts).in = id \/ Head(ts).rest = id THEN Head(ts).qty ELSE 0)
         + FilledIn(Tail(ts), id)

\* the calls of the specification's example
ExampleBuy10 == <<TRUE, 100, 10, 0, FALSE>>
ExampleSell4 == <<FALSE, 100, 4, 0, FALSE>>
ExampleSell6 == <<FALSE, 100, 6, 0, FALSE>>

\* C4: every trade of a call is for the smaller of the two open quantities,
\* at the resting order's price, and the call takes from every order's open
\* quantity exactly what its trades were for; add(buy,100,10), add(sell,100,4)
\* leaves the bid depth at price 100 with quantity 6, and a further
\* add(sell,100,6) leaves no bid level and no bid depth entry.
C4_TradesTakeTheMinimum ==
    [][/\ \A k \in 1..Len(trades') :
             /\ trades'[k].qty = Min(trades'[k].inOpen, trades'[k].restOpen)
             /\ trades'[k].qty > 0
             /\ trades'[k].price = submitted'[trades'[k].rest][2]
       /\ \A id \in DOMAIN open' :
             open'[id] = (IF id \in DOMAIN open THEN open[id] ELSE submitted'[id][3])
                            - FilledIn(trades', id)
       /\ submitted' = <<ExampleBuy10, ExampleSell4>> =>
             /\ GetDepth'.bids = <<[price |-> 100, quantity |-> 6]>>
             /\ GetOrderBook'.bids = <<[price |-> 100, quantity |-> 6]>>
       /\ submitted' = <<ExampleBuy10, ExampleSell4, ExampleSell6>> =>
             /\ bids' = <<>>
             /\ GetDepth'.bids = <<>>
             /\ GetOrderBook'.bids = <<>>
      ]_vars

\* C4 witness: the example's three calls have been made, the last one traded
\* 6 at price 100 and returned true, and the bid side is empty
C4_Witness ==
    /\ submitted = <<ExampleBuy10, ExampleSell4, ExampleSell6>>
    /\ ret = [op |-> "addOrder", threw |-> "none", value |-> "true", arg |-> 3]
    /\ Len(trades) = 1 /\ trades[1].qty = 6 /\ trades[1].price = 100
    /\ bids = <<>> /\ GetDepth.bids = <<>>

\* the order is resting in the book
Resting(id) == id \in DOMAIN status /\ status[id] = "resting"

\* the id names no order, or one that is filled, cancelled or rejected
NotLive(id) ==
    id \notin DOMAIN status \/ status[id] \in {"filled", "cancelled", "rejected"}

\* a book side as the prices and open quantities of its orders, in queue order
SideOf(b, side) ==
    [k \in 1..Len(side) |-> [price |-> price(b.orders[side[k]]),
                             open |-> b.open[side[k]]]]

\* C6, as claimed: cancelOrder on a resting order succeeds, takes exactly
\* that order out of its book side and of the depth, leaves every other
\* order's open quantity and place as they were and trades nothing.
C6_CancelRemovesRestingOrder ==
    [][(ret'.op = "cancelOrder" /\ Resting(ret'.arg)) =>
          LET b == cancel(Book(TRUE), ret'.arg)
          IN  /\ ret'.threw = "none"
              /\ ret'.value = "true"
              /\ ret'.arg \notin {bids'[k] : k \in 1..Len(bids')}
                                   \cup {asks'[k] : k \in 1..Len(asks')}
              /\ bids' = b.bids
              /\ asks' = b.asks
              /\ depthBids' = b.depthBids
              /\ depthAsks' = b.depthAsks
              /\ \A id \in DOMAIN open : id # ret'.arg => open'[id] = open[id]
              /\ trades' = <<>>
      ]_vars

\* C7: cancelOrder and replaceOrder on an id that names no order, or a filled,
\* cancelled or rejected one, report failure and leave the book sides, the
\* stop sets, the depth and the market price as they were.
C7_CancelOfDeadOrderFails ==
    [][(ret'.op \in {"cancelOrder", "replaceOrder"} /\ NotLive(ret'.arg)) =>
          /\ ret'.threw # "none" \/ ret'.value = "false"
          /\ UNCHANGED <<bids, asks, stopBids, stopAsks, depthBids, depthAsks,
                         marketPrice, open, status>>
      ]_vars

\* C7 witness: cancelOrder has just failed on a filled order while another
\* order rests in the book
C7_Witness ==
    /\ ret.op = "cancelOrder"
    /\ ret.threw = "Error"
    /\ ret.arg \in DOMAIN status
    /\ status[ret.arg] = "filled"
    /\ bids # <<>>
    /\ GetDepth.bids # <<>>

\* C8, as claimed: replaceOrder(id, newPrice, newQty) on a resting order
\* succeeds and leaves the book as cancel(id) followed by add of an order of
\* the same side with newQty at newPrice leaves it, the replacing order last
\* in the queue of its price.
C8_ReplaceIsCancelThenAdd ==
    [][\A info \in ReplaceInfos :
          (ReplaceOrder(info) /\ Len(info) >= 3 /\ Resting(info[1])) =>
              \E bf \in BOOLEAN :
                  LET old == orders[info[1]]
                      b1  == cancel(Book(bf), info[1])
                      new == NodeOrder(is_buy(old), info[2], info[3], 0,
                                       all_or_none(old), immediate_or_cancel(old))
                      b   == add([b1 EXCEPT !.orders = Append(@, new),
                                            !.open = Append(@, order_qty(new)),
                                            !.status = Append(@, "accepted"),
                                            !.arrival = Append(@, 0)], 0)
                  IN  /\ ret'.threw = "none"
                      /\ ret'.value = "true"
                      /\ SideOf(Book(bf), bids)' = SideOf(b, b.bids)
                      /\ SideOf(Book(bf), asks)' = SideOf(b, b.asks)
                      /\ depthBids' = b.depthBids
                      /\ depthAsks' = b.depthAsks
                      /\ marketPrice' = b.marketPrice
      ]_vars

\* the order was submitted as a stop order
IsStopArg(id) == ArgStop(id) # 0 /\ ArgQty(id) # 0

\* the market price mp satisfies the trigger of stop order id
TriggerMet(id, mp) == IF ArgIsBuy(id) THEN mp >= ArgStop(id) ELSE mp <= ArgStop(id)

\* the number of orders the levels of a depth side count
RECURSIVE CountedIn(_)
CountedIn(levels) ==
    IF levels = <<>> THEN 0 ELSE Head(levels).order_count + CountedIn(Tail(levels))

\* the order is held in the stop set: in no book side, untraded, and the
\* depth counts the resting orders only
Held(id) ==
    /\ status[id] = "stop"
    /\ \E k \in 1..Len(stopBids \o stopAsks) : (stopBids \o stopAsks)[k] = id
    /\ \A k \in 1..Len(bids \o asks) : (bids \o asks)[k] # id
    /\ open[id] = ArgQty(id)
    /\ \A k \in TradeIdx : trades[k].in # id /\ trades[k].rest # id
    /\ CountedIn(depthBids) = Len(bids)
    /\ CountedIn(depthAsks) = Len(asks)

\* C9: an order added with a non-zero stop price is held in the stop set, out
\* of the book sides and the depth and untraded, and leaves the stop set only
\* in a call that activates it at a market price satisfying its trigger (buy:
\* market price >= stop price, sell: market price <= stop price); a
\* setMarketPrice(p) activates every held stop order whose trigger p satisfies,
\* as setMarketPrice(96) does a buy stop at 96 that was held at 95.
C9_StopHeldUntilTriggered ==
    [][/\ \A id \in DOMAIN submitted' :
             IsStopArg(id)' =>
                 \/ Held(id)'
                 \/ /\ id \in DOMAIN submitted
                    /\ Held(id)
                    /\ \E k \in 1..Len(activated') :
                          /\ activated'[k].id = id
                          /\ TriggerMet(id, activated'[k].marketPrice)
                 \/ /\ id \in DOMAIN submitted
                    /\ ~Held(id)
       /\ (ret'.op = "setMarketPrice" /\ ret'.threw = "none") =>
             \A id \in DOMAIN submitted :
                 (IsStopArg(id) /\ Held(id) /\ TriggerMet(id, ret'.arg)) =>
                     /\ ~Held(id)'
                     /\ \E k \in 1..Len(activated') :
                           activated'[k] = [id |-> id, marketPrice |-> ret'.arg]
      ]_vars

\* C9 witness: setMarketPrice(95) has activated a sell stop at 96, which now
\* rests in the book, and a buy stop at 96 stays in the stop set
C9_Witness ==
    /\ ret.op = "setMarketPrice" /\ ret.arg = 95 /\ marketPrice = 95
    /\ \E s, h \in Ids :
          /\ ~ArgIsBuy(s) /\ ArgStop(s) = 96 /\ asks = <<s>>
          /\ activated = <<[id |-> s, marketPrice |-> 95]>>
          /\ ArgIsBuy(h) /\ ArgStop(h) = 96 /\ Held(h)

\* C10: stop orders of one side and one stop price that a call activates are
\* activated in the order of their submission, and the earlier one is matched
\* (all its trades as the incoming order) and rested before the later one.
C10_StopsActivateInSubmissionOrder ==
    \A i, j \in 1..Len(activated) :
        LET a == activated[i].id
            c == activated[j].id
        IN  (i < j /\ ArgIsBuy(a) = ArgIsBuy(c) /\ ArgStop(a) = ArgStop(c)) =>
                /\ a < c
                /\ (arrival[a] > 0 /\ arrival[c] > 0) => arrival[a] < arrival[c]
                /\ \A k, l \in TradeIdx :
                       (trades[k].in = a /\ trades[l].in = c) => k < l

\* C10 witness: one call has activated two buy stops of one stop price and
\* both have come to rest
C10_Witness ==
    \E i, j \in 1..Len(activated) :
        LET a == activated[i].id
            c == activated[j].id
        IN  /\ i < j
            /\ ArgIsBuy(a) /\ ArgIsBuy(c)
            /\ ArgStop(a) = ArgStop(c)
            /\ ArgPrice(a) = ArgPrice(c)
            /\ 0 < arrival[a] /\ arrival[a] < arrival[c]

\* the entries of a book snapshot list the price levels of a side: one entry
\* per price at which the side has open orders, best price first
SnapshotListsLevels(entries, side, isBuy) ==
    /\ Len(entries) = Cardinality(PricesOf(side))
    /\ \A i \in 1..Len(entries) :
          /\ entries[i].price \in PricesOf(side)
          /\ entries[i].quantity > 0
    /\ \A i, j \in 1..Len(entries) :
          i < j => Better(isBuy, entries[i].price, entries[j].price)

\* C11, as claimed: after any addOrder, cancelOrder or replaceOrder the book
\* snapshot lists, per side, exactly one entry per distinct price level of the
\* book (not one per order), best price first, and no entry for a level
\* without open orders.
C11_SnapshotOneEntryPerLevel ==
    ret.op \in {"addOrder", "cancelOrder", "replaceOrder"} =>
        /\ SnapshotListsLevels(GetOrderBook.bids, bids, TRUE)
        /\ SnapshotListsLevels(GetOrderBook.asks, asks, FALSE)

\* slot i of the depth array holds the i-th best price level of the side with
\* the sum of its orders' open quantities, and the empty marker when the side
\* has fewer than i levels
SlotsFollowLevels(array, side, isBuy) ==
    /\ DOMAIN array = 1..SIZE
    /\ \A i \in 1..SIZE :
          IF i <= Cardinality(PricesOf(side))
          THEN /\ array[i].price \in PricesOf(side)
               /\ RankOf(side, isBuy, array[i].price) = i - 1
               /\ array[i].aggregate_qty = SumOpenAt(side, array[i].price)
               /\ ValidLevel(array[i])
          ELSE /\ array[i] = EmptyLevel
               /\ array[i].price \notin PricesOf(side)
               /\ ~ValidLevel(array[i])

\* the entries GetDepth returns are the slots of the depth array that hold a
\* level, in order, each with the slot's price and aggregate quantity
EntriesAreLiveSlots(entries, array, side) ==
    /\ Len(entries) = Min(Cardinality(PricesOf(side)), SIZE)
    /\ \A i \in 1..Len(entries) :
          entries[i] = [price |-> array[i].price,
                        quantity |-> array[i].aggregate_qty]

ArgIoc(id) == Len(submitted[id]) > 5 /\ submitted[id][6]

\* the orders of a book side or stop set
InSide(side) == {side[k] : k \in 1..Len(side)}

\* the depth view of a side shows the side's resting orders and nothing else
DepthShowsOnly(entries, levels, side) ==
    /\ CountedIn(levels) = Len(side)
    /\ \A i \in 1..Len(entries) :
          entries[i].quantity = SumOpenAt(side, entries[i].price)

\* C13: an order added with the immediate-or-cancel flag never rests: between
\* calls it is in no book side, the depth shows the other orders only, and
\* whatever part of it was not filled is cancelled.
C13_ImmediateOrCancelNeverRests ==
    \A id \in Ids :
        ArgIoc(id) =>
            /\ id \notin InSide(bids) \cup InSide(asks)
            /\ DepthShowsOnly(GetDepth.bids, depthBids, bids)
            /\ DepthShowsOnly(GetDepth.asks, depthAsks, asks)
            /\ open[id] > 0 => status[id] = "cancelled"
            /\ open[id] = 0 => status[id] = "filled"

\* C13 witness: an immediate-or-cancel buy of 10 has just traded 5 with the
\* only ask, its remainder of 5 is cancelled and the bid side shows nothing
C13_Witness ==
    \E id \in Ids :
        /\ ArgIoc(id) /\ ArgIsBuy(id) /\ ArgQty(id) = 10
        /\ ret = [op |-> "addOrder", threw |-> "none", value |-> "true", arg |-> id]
        /\ open[id] = 5 /\ status[id] = "cancelled"
        /\ bids = <<>> /\ asks = <<>>
        /\ GetDepth.bids = <<>> /\ GetOrderBook.bids = <<>>

\* C14: an addOrder with quantity 0 is rejected before any state change: it
\* returns false, no trade occurs, and the book sides, the stop sets, the
\* depth, the market price and every other order's open quantity and status
\* are as before the call.
C14_ZeroQuantityAddRejected ==
    [][(ret'.op = "addOrder" /\ ret'.threw = "none"
            /\ submitted'[ret'.arg][3] = 0) =>
          /\ UNCHANGED bookVars
          /\ UNCHANGED <<GetDepth, GetOrderBook>>
          /\ trades' = <<>>
          /\ activated' = <<>>
          /\ ret'.value = "false"
          /\ status'[ret'.arg] = "rejected"
          /\ \A id \in Ids : open'[id] = open[id] /\ status'[id] = status[id]
      ]_vars

\* C14 witness: a buy at price 1 with quantity 0 has been rejected while a
\* sell at price 1 rests in the book and a stop order is held
C14_Witness ==
    /\ ret.op = "addOrder" /\ ret.threw = "none" /\ ret.value = "false"
    /\ ret.arg \in Ids
    /\ submitted[ret.arg] = <<TRUE, 1, 0, 0, FALSE>>
    /\ status[ret.arg] = "rejected"
    /\ asks # <<>>
    /\ stopBids \o stopAsks # <<>>

\* the order was submitted as a market order
IsMarketArg(id) == ArgPrice(id) = MARKET_ORDER_PRICE /\ ArgQty(id) # 0

\* no book side and no snapshot holds a market order
NoMarketOrderRests ==
    /\ \A id \in Ids :
          IsMarketArg(id) =>
              /\ id \notin InSide(bids) \cup InSide(asks)
              /\ status[id] \in {"stop", "filled", "cancelled"}
              /\ (status[id] = "cancelled") = (open[id] > 0 /\ ~Held(id))
    /\ \A i \in 1..Len(GetOrderBook.bids) :
          GetOrderBook.bids[i].price # MARKET_ORDER_PRICE
    /\ \A i \in 1..Len(GetOrderBook.asks) :
          GetOrderBook.asks[i].price # MARKET_ORDER_PRICE
    /\ \A i \in 1..Len(GetDepth.bids) :
          GetDepth.bids[i].price # MARKET_ORDER_PRICE
    /\ \A i \in 1..Len(GetDepth.asks) :
          GetDepth.asks[i].price # MARKET_ORDER_PRICE

\* addOrder has just returned for a market order without a stop price, in a
\* call that activated no stop order (the book is as the order left it)
MarketOrderAdded ==
    /\ ret.op = "addOrder" /\ ret.threw = "none"
    /\ IsMarketArg(ret.arg)
    /\ ArgStop(ret.arg) = 0
    /\ activated = <<>>

\* the book side order id matches against
OppositeOf(id) == IF ArgIsBuy(id) THEN asks ELSE bids

\* the all-or-none rule forbids a trade of what is left of order id with the
\* resting order r
AonForbids(id, r) ==
    \/ ArgAon(r) /\ open[id] < open[r]
    \/ ArgAon(id) /\ open[r] < open[id]

\* C15, as claimed: a market order never rests; it is matched until its
\* quantity is exhausted or the opposite side is empty, and what is left of it
\* is cancelled.
C15_MarketOrderMatchesUntilSideEmpty ==
    /\ NoMarketOrderRests
    /\ MarketOrderAdded => (open[ret.arg] = 0 \/ OppositeOf(ret.arg) = <<>>)

\* C15, amended: a market order never rests; it is matched until its quantity
\* is exhausted or the opposite side holds no order it may trade with (the
\* side is empty, or the all-or-none rule forbids a trade with each order
\* left on it), and what is left of it is cancelled.
C15_MarketOrderNeverRests ==
    /\ NoMarketOrderRests
    /\ MarketOrderAdded =>
          \/ open[ret.arg] = 0
          \/ \A r \in InSide(OppositeOf(ret.arg)) : AonForbids(ret.arg, r)

\* C15 witness: a market buy of 5 has just been added against an ask side
\* whose only order is an all-or-none sell of 10: nothing traded, the market
\* order is cancelled and rests nowhere, the sell order stays
C15_Witness ==
    /\ MarketOrderAdded
    /\ ArgIsBuy(ret.arg)
    /\ ret.value = "false"
    /\ open[ret.arg] = 5
    /\ status[ret.arg] = "cancelled"
    /\ bids = <<>>
    /\ Len(asks) = 1 /\ ArgAon(asks[1]) /\ open[asks[1]] = 10

\* the orders held in the stop set
StopSet == InSide(stopBids) \cup InSide(stopAsks)

\* the call updated the market price: it is a setMarketPrice, or it traded
PriceUpdated == (ret.op = "setMarketPrice" /\ ret.threw = "none") \/ trades # <<>>

\* C16: a call that updates the market price works the triggered stop orders
\* off as a queue and returns with the queue empty: it activates only orders
\* that were in the stop set, each of them once (no more activations than
\* stop orders held, and an order that has left the stop set never returns to
\* it), every activated order is matched and settled when the call returns,
\* and no stop order left in the stop set has its trigger satisfied by the
\* market price the call leaves.
C16_StopCascadeTerminates ==
    [][/\ \A k, l \in 1..Len(activated') :
             k # l => activated'[k].id # activated'[l].id
       /\ \A k \in 1..Len(activated') :
             /\ activated'[k].id \in StopSet
             /\ activated'[k].id \notin StopSet'
             /\ status'[activated'[k].id] \in {"resting", "filled", "cancelled"}
       /\ Len(activated') <= Cardinality(StopSet)
       /\ \A id \in Ids : id \notin StopSet => id \notin StopSet'
       /\ \A id \in DOMAIN status' : status'[id] \notin {"accepted", "pending"}
       /\ PriceUpdated' =>
             /\ marketPrice' = IF trades' = <<>> THEN ret'.arg
                               ELSE trades'[Len(trades')].price
             /\ \A id \in StopSet' : ~TriggerMet(id, marketPrice')
      ]_vars

\* C16 witness: setMarketPrice(95) has activated a sell stop, whose trade at
\* another price has activated a buy stop in the same call, and the stop set
\* is empty
C16_Witness ==
    /\ ret.op = "setMarketPrice" /\ ret.arg = 95
    /\ Len(activated) = 2
    /\ ~ArgIsBuy(activated[1].id) /\ activated[1].marketPrice = 95
    /\ ArgIsBuy(activated[2].id) /\ activated[2].marketPrice > 95
    /\ \E k \in TradeIdx : /\ trades[k].in = activated[1].id
                           /\ trades[k].price = activated[2].marketPrice
    /\ StopSet = {}

\* C17: setMarketPrice(p) executes no trade by itself: every trade of the
\* call has an activated stop order as its incoming order, and when no stop
\* order held has its trigger satisfied at p the call sets the market price to
\* p and leaves the book sides, every order's open quantity, the stop set and
\* the depth view as they were.
C17_SetMarketPriceTradesNothing ==
    [][(ret'.op = "setMarketPrice" /\ ret'.threw = "none") =>
          /\ \A k \in 1..Len(trades') :
                \E a \in 1..Len(activated') : activated'[a].id = trades'[k].in
          /\ trades' = <<>> => marketPrice' = ret'.arg
          /\ (\A id \in StopSet : ~TriggerMet(id, ret'.arg)) =>
                /\ marketPrice' = ret'.arg
                /\ trades' = <<>>
                /\ activated' = <<>>
                /\ UNCHANGED <<bids, asks, stopBids, stopAsks, open, status,
                               depthBids, depthAsks>>
                /\ UNCHANGED <<GetDepth, GetOrderBook>>
      ]_vars

\* C17 witness: setMarketPrice(95) has set the market price to 95 while a buy
\* stop at 96 stays held and a bid and an ask that an all-or-none flag kept
\* from trading rest at crossing prices, untouched
C17_Witness ==
    /\ ret.op = "setMarketPrice" /\ ret.threw = "none" /\ ret.arg = 95
    /\ marketPrice = 95
    /\ trades = <<>>
    /\ \E h \in StopSet : ArgIsBuy(h) /\ ArgStop(h) = 96
    /\ bids # <<>> /\ asks # <<>>
    /\ ArgPrice(bids[1]) >= ArgPrice(asks[1])

\* the order is filled or cancelled
Terminal(id) == status[id] \in {"filled", "cancelled"}

\* C18: an order's open quantity is at most its initial quantity and never
\* increases, and an order that is filled or cancelled stays so: it is in no
\* book side and no stop set, and no later trade involves it.
C18_OpenQuantityNeverIncreases ==
    [][\A id \in DOMAIN submitted' :
          /\ 0 <= open'[id] /\ open'[id] <= submitted'[id][3]
          /\ (status'[id] = "filled") = (open'[id] = 0 /\ submitted'[id][3] > 0)
          /\ Terminal(id)' =>
                id \notin InSide(bids') \cup InSide(asks') \cup StopSet'
          /\ id \in Ids =>
                /\ open'[id] <= open[id]
                /\ Terminal(id) =>
                      /\ status'[id] = status[id]
                      /\ open'[id] = open[id]
                      /\ \A k \in 1..Len(trades') :
                            trades'[k].in # id /\ trades'[k].rest # id
      ]_vars

\* C18 witness: an immediate-or-cancel order was cancelled with part of its
\* quantity open after filling another order, and both are as they were after
\* a later order has come to rest
C18_Witness ==
    \E f, c, r \in Ids :
        /\ f < r /\ c < r
        /\ status[f] = "filled" /\ open[f] = 0
        /\ status[c] = "cancelled" /\ 0 < open[c] /\ open[c] < ArgQty(c)
        /\ status[r] = "resting" /\ ret.arg = r

\* the orders of a book side form its price levels: each is an open order of
\* the side, the orders of one price are together, better prices come first,
\* and the snapshot shows each order at the price it was submitted with
SideInLevels(side, isBuy, entries) ==
    /\ \A k \in 1..Len(side) :
          /\ ArgIsBuy(side[k]) = isBuy
          /\ open[side[k]] > 0
          /\ status[side[k]] = "resting"
          /\ entries[k] = [price |-> ArgPrice(side[k]), quantity |-> open[side[k]]]
    /\ \A i, j \in 1..Len(side) :
          /\ i < j => ~Better(isBuy, ArgPrice(side[j]), ArgPrice(side[i]))
          /\ i # j => side[i] # side[j]

\* the levels of a side: one per price at which an order rests, none without
\* an order, each counting the orders at its price, better prices first
LevelsOfSide(levels, side, isBuy) ==
    /\ {levels[i].price : i \in 1..Len(levels)} = PricesOf(side)
    /\ \A i, j \in 1..Len(levels) :
          i < j => Better(isBuy, levels[i].price, levels[j].price)
    /\ \A i \in 1..Len(levels) :
          /\ levels[i].order_count >= 1
          /\ levels[i].order_count =
                Cardinality({k \in 1..Len(side) : ArgPrice(side[k]) = levels[i].price})
          /\ levels[i].aggregate_qty > 0

\* C19: between calls each book side has one price level per distinct price
\* at which an order rests, every order of a level is an open order of the
\* level's price and side, and no level is without an order: the level is
\* gone once its last order is filled.
C19_OneNonEmptyLevelPerPrice ==
    /\ SideInLevels(bids, TRUE, GetOrderBook.bids)
    /\ SideInLevels(asks, FALSE, GetOrderBook.asks)
    /\ LevelsOfSide(depthBids, bids, TRUE)
    /\ LevelsOfSide(depthAsks, asks, FALSE)

\* C19 witness: the only ask level is gone with the fill of its order, and
\* the bid side has one level of two orders, one of them partly filled
C19_Witness ==
    /\ asks = <<>> /\ depthAsks = <<>> /\ GetOrderBook.asks = <<>>
    /\ \E f \in Ids : ~ArgIsBuy(f) /\ status[f] = "filled"
    /\ Len(bids) = 2
    /\ Len(depthBids) = 1 /\ depthBids[1].order_count = 2
    /\ open[bids[1]] < ArgQty(bids[1])

\* no order was submitted with the all-or-none flag
NoAllOrNone == \A id \in Ids : ~ArgAon(id)

\* C20: when no order carries the all-or-none flag the book is not crossed
\* between calls: every resting buy order has a strictly lower price than
\* every resting sell order, and so has the best bid than the best ask in the
\* book snapshot and in the depth view.
C20_BookNeverCrossed ==
    NoAllOrNone =>
        /\ \A b \in InSide(bids), a \in InSide(asks) : ArgPrice(b) < ArgPrice(a)
        /\ (GetOrderBook.bids # <<>> /\ GetOrderBook.asks # <<>>) =>
              GetOrderBook.bids[1].price < GetOrderBook.asks[1].price
        /\ (GetDepth.bids # <<>> /\ GetDepth.asks # <<>>) =>
              GetDepth.bids[1].price < GetDepth.asks[1].price

\* C20 witness: no order is all-or-none, an order has been filled, and a bid
\* at 96 and an ask at 100 rest in the book
C20_Witness ==
    /\ NoAllOrNone
    /\ \E f \in Ids : status[f] = "filled"
    /\ bids # <<>> /\ asks # <<>>
    /\ GetOrderBook.bids[1].price = 96
    /\ GetOrderBook.asks[1].price = 100

=============================================================================
